---- MODULE Spec2Model ----
(***************************************************************************)
(* The checkpoint / undo subsystem of imageJ_toolkit_v2.24.py: the stack   *)
(* of checkpoint folders, the checkpoint root on disk, the open images,    *)
(* LAST_DROPPED_FILES, and the threads that the panel starts (one per      *)
(* button click, one per drop event) next to the Swing event thread.       *)
(***************************************************************************)
EXTENDS Integers, Sequences, FiniteSets, TLC

\* ---------------------------------------------------------------- bounds
MaxOps == 3        \* operations (button clicks, drops, ...) started in one run
MaxCalls == 6      \* the same, in a long run of direct calls ("deep" in mode)

\* The threads started by button clicks and drops, and the Swing event thread.
Workers == {1, 2}
EDT == 0
Procs == Workers \cup {EDT}

\* ------------------------------------------------------- titles and files
\* A title or file name is a sequence of tokens.  "/" and "\\" are the path
\* separators, ".tif" and ".TIF" the four-character extensions; the other
\* tokens are single characters outside ".tif".
T_a == <<"a">>
T_b == <<"b">>
T_atif == <<"a", ".tif">>
T_aTIF == <<"a", ".TIF">>
T_slash == <<"a", "/", "b">>
T_under == <<"a", "_", "b">>
T_back == <<"a", "\\", "b">>
T_mid == <<"a", ".tif", "b">>
Titles == {T_a, T_b, T_atif, T_aTIF, T_slash, T_under, T_back, T_mid}

\* str.lower() on one token
Lower(c) == IF c = ".TIF" THEN ".tif" ELSE c

\* imp.getTitle().replace("/", "_").replace("\\", "_")
SafeTitle(title) ==
  [k \in 1..Len(title) |-> IF title[k] \in {"/", "\\"} THEN "_" ELSE title[k]]

\* save_path.lower().endswith(".tif")
EndsWithTif(name) == Len(name) > 0 /\ Lower(name[Len(name)]) = ".tif"

\* the file name under chk_folder: safe_title, plus ".tif" unless it ends so
SaveName(title) ==
  IF EndsWithTif(SafeTitle(title)) THEN SafeTitle(title)
  ELSE Append(SafeTitle(title), ".tif")

\* safe_title.replace(".tif", ""): every ".tif" is removed, case-sensitively
NewTitle(title) == SelectSeq(SafeTitle(title), LAMBDA c : c # ".tif")

\* a fault to tell the claims apart from: the extension is kept
OrigName_Whole(name) == name

\* f.getName()[:-4]
OrigName(name) == SubSeq(name, 1, Len(name) - 1)

\* The files dropped on the panel, and the title Bio-Formats gives each image.
Paths == {"p1", "p2"}
PathTitle(p) == IF p = "p1" THEN T_a ELSE <<"b", ".tif">>

\* -------------------------------------------------------------- variables
VARIABLES
  workspace,  \* the open images in WindowManager order: [id, title, px]
  stack,      \* CHECKPOINT_STACK: [dir, sn, pre]; sn, the creation serial, and
              \* pre, the images at snapshot time, are history
  root,       \* CHECKPOINT_ROOT exists
  disk,       \* checkpoint folder (its timestamp) -> set of files [name, px]
  dropped,    \* LAST_DROPPED_FILES
  prefs,      \* [max, confirm]: xiaoming.undo.max_steps, xiaoming.undo.confirm
  clock,      \* the millisecond of time.time() (see TimeRead)
  panel,      \* the toolbox window is open
  thr,        \* per thread: program counter and locals
  mode,       \* what the environment may do in this run (fixed by Init)
  started,    \* the operations started so far, in order (history)
  hist        \* folders created so far, in creation order (history)

vars == <<workspace, stack, root, disk, dropped, prefs, clock, panel, thr,
          mode, started, hist>>

\* ---------------------------------------------------------------- helpers
Range(s) == {s[k] : k \in 1..Len(s)}
Min2(a, b) == IF a < b THEN a ELSE b
Max2(a, b) == IF a > b THEN a ELSE b

NoEntry == [dir |-> -1, sn |-> 0, pre |-> <<>>]

\* A thread that runs nothing.  pre, ws0 and took are history: the images
\* save_checkpoint found (kept with the stack entry from then on), the images
\* when the undo request began, and the files of the folder
\* restore_last_checkpoint popped.
IdleRec ==
  [pc |-> "idle", op |-> "none", ids |-> <<>>, i |-> 0, new |-> NoEntry,
   old |-> NoEntry, max |-> 0, files |-> {}, paths |-> <<>>, conf |-> FALSE,
   csb |-> FALSE, cr |-> FALSE, succ |-> FALSE, out |-> "none",
   pre |-> <<>>, ws0 |-> <<>>, took |-> {}]

L(t) == thr[t]
Goto(t, r) == thr' = [thr EXCEPT ![t] = r]
\* The thread's function returns and the thread ends.  An undo request stays
\* at "done" for one more step, with the locals that tell how it went.
End(r, out) ==
  IF r.op \in {"undo", "restore"}
    THEN [IdleRec EXCEPT !.pc = "done", !.op = r.op, !.out = out,
                         !.conf = r.conf, !.csb = r.csb, !.cr = r.cr,
                         !.succ = r.succ, !.old = r.old, !.paths = r.paths,
                         !.ws0 = r.ws0, !.took = r.took]
    ELSE IdleRec
Return(t, out) == Goto(t, End(L(t), out))
\* an exception that nothing catches ends the thread
Raise(t) == Return(t, "error")

AllIdle == \A p \in Procs : thr[p].pc = "idle"

\* WindowManager.getIDList()
IDList == [k \in 1..Len(workspace) |-> workspace[k].id]
\* WindowManager.getImage(id) is not None
IsOpen(id) == \E k \in 1..Len(workspace) : workspace[k].id = id
Doc(id) == CHOOSE d \in Range(workspace) : d.id = id
\* imp.close()
Closed(ws, id) == SelectSeq(ws, LAMBDA d : d.id # id)
\* imp.setTitle(title)
Retitled(ws, id, title) ==
  [k \in 1..Len(ws) |-> IF ws[k].id = id THEN [ws[k] EXCEPT !.title = title]
                        ELSE ws[k]]
\* The id of a newly opened image.  ImageJ never reuses an id; here an id is
\* used again only when nothing refers to it any more: no open image, no
\* thread's id list, no record of the images of an earlier moment.
IdsOf(ws) == {ws[k].id : k \in 1..Len(ws)}
UsedIds ==
  IdsOf(workspace)
    \cup UNION {Range(thr[p].ids) \cup IdsOf(thr[p].ws0) \cup IdsOf(thr[p].pre)
                 \cup IdsOf(thr[p].new.pre) \cup IdsOf(thr[p].old.pre) :
               p \in Procs}
    \cup UNION {IdsOf(stack[k].pre) : k \in 1..Len(stack)}
FreshId ==
  LET used == UsedIds
  IN  CHOOSE n \in 1..(Cardinality(used) + 1) :
        n \notin used /\ \A m \in 1..(n - 1) : m \in used
\* imp.show() of a new image
Shown(ws, title, px) == Append(ws, [id |-> FreshId, title |-> title, px |-> px])

\* a file written into a folder replaces the file of the same name
Written(files, name, px) ==
  {f \in files : f.name # name} \cup {[name |-> name, px |-> px]}
Exists(d) == d \in DOMAIN disk
Removed(dk, d) == [x \in DOMAIN dk \ {d} |-> dk[x]]
NoDisk == [x \in {} |-> {}]

\* shutil.rmtree inside try/except: it may fail only where the run allows it
DelOk == IF "delfail" \in mode THEN BOOLEAN ELSE {TRUE}
\* the Bio-Formats import inside try/except
ImpOk == IF "impfail" \in mode THEN BOOLEAN ELSE {TRUE}

\* get_undo_max_steps: int(max(1, min(10, val)))
ClampHi == 10
ClampLo == 1
\* a fault to tell the claims apart from: the stored value as it is
get_undo_max_steps_Unclamped == prefs.max
get_undo_max_steps == Max2(ClampLo, Min2(ClampHi, prefs.max))

\* ------------------------------------------------------- save_checkpoint
\* Where the caller goes on when save_checkpoint returns.
AfterSave(op) ==
  CASE op = "module" -> "m_ids"
    [] op = "closeall" -> "ca_ids"
    [] OTHER -> "done"

SaveReturn(t) ==
  IF AfterSave(L(t).op) = "done" THEN Return(t, "ok")
  ELSE Goto(t, [IdleRec EXCEPT !.pc = AfterSave(L(t).op), !.op = L(t).op])

\* a fault to tell the claims apart from: no "if not ids: return"
sc_ids_Unguarded(t) ==
  /\ L(t).pc = "sc_ids"
  /\ Goto(t, [L(t) EXCEPT !.pc = "sc_root", !.ids = IDList,
                          !.pre = workspace])
  /\ UNCHANGED <<workspace, stack, root, disk, dropped, prefs, clock, panel,
                 mode, started, hist>>

\* ids = WindowManager.getIDList(); if not ids: return
sc_ids(t) ==
  /\ L(t).pc = "sc_ids"
  /\ IF IDList = <<>>
       THEN SaveReturn(t)
       ELSE Goto(t, [L(t) EXCEPT !.pc = "sc_root", !.ids = IDList,
                                 !.pre = workspace])
  /\ UNCHANGED <<workspace, stack, root, disk, dropped, prefs, clock, panel,
                 mode, started, hist>>

\* ensure_checkpoint_root()
sc_root(t) ==
  /\ L(t).pc = "sc_root"
  /\ root' = TRUE
  /\ Goto(t, [L(t) EXCEPT !.pc = "sc_mkdir"])
  /\ UNCHANGED <<workspace, stack, disk, dropped, prefs, clock, panel, mode,
                 started, hist>>

\* Only the order of the milliseconds read matters, and whether two reads
\* give the same one.  So clock stands for the latest millisecond that may
\* still be read, a later one is the next number, and a later one is told
\* apart from clock only once a folder has been named after clock.
Named(ts) == \E k \in 1..Len(hist) : hist[k] = ts
\* int(time.time() * 1000): the same millisecond again, or a later one
TimeRead == IF Named(clock) THEN {clock, clock + 1} ELSE {clock}

\* timestamp = str(int(time.time() * 1000)); os.mkdir(chk_folder): OSError
\* when the folder exists or the root is gone
sc_mkdir(t) ==
  /\ L(t).pc = "sc_mkdir"
  /\ \E ts \in TimeRead :
       /\ clock' = ts
       /\ IF ~root \/ Exists(ts)
            THEN /\ Raise(t)
                 /\ UNCHANGED <<disk, hist>>
            ELSE /\ disk' = (ts :> {}) @@ disk
                 /\ hist' = Append(hist, ts)
                 /\ Goto(t, [L(t) EXCEPT !.pc = "sc_save", !.i = 1,
                               !.pre = <<>>,
                               !.new = [dir |-> ts, sn |-> Len(hist) + 1,
                                        pre |-> L(t).pre]])
  /\ UNCHANGED <<workspace, stack, root, dropped, prefs, panel, mode, started>>

\* one turn of "for id in ids": IJ.saveAs and imp.setTitle for an image that
\* is still open (a save into a folder that is gone writes nothing)
sc_save(t) ==
  /\ L(t).pc = "sc_save"
  /\ LET id == L(t).ids[L(t).i]
         d == L(t).new.dir
     IN  IF IsOpen(id)
           THEN /\ disk' = IF Exists(d)
                             THEN [disk EXCEPT ![d] =
                                     Written(@, SaveName(Doc(id).title),
                                             Doc(id).px)]
                             ELSE disk
                /\ workspace' = Retitled(workspace, id, NewTitle(Doc(id).title))
           ELSE UNCHANGED <<disk, workspace>>
  /\ IF L(t).i = Len(L(t).ids)
       THEN Goto(t, [L(t) EXCEPT !.pc = "sc_append", !.ids = <<>>, !.i = 0])
       ELSE Goto(t, [L(t) EXCEPT !.i = @ + 1])
  /\ UNCHANGED <<stack, root, dropped, prefs, clock, panel, mode, started, hist>>

\* CHECKPOINT_STACK.append(chk_folder); max_steps = get_undo_max_steps()
\* (one step: reading the preference touches nothing another thread's step
\* on the stack, the disk or the images reads or writes)
sc_append(t) ==
  /\ L(t).pc = "sc_append"
  /\ stack' = Append(stack, L(t).new)
  /\ Goto(t, [L(t) EXCEPT !.pc = "sc_loop", !.max = get_undo_max_steps])
  /\ UNCHANGED <<workspace, root, disk, dropped, prefs, clock, panel, mode,
                 started, hist>>

\* a fault to tell the claims apart from: the loop stops one entry early
TrimNeeded_OffByOne(len, max) == len > max + 1

\* while len(CHECKPOINT_STACK) > max_steps
TrimNeeded(len, max) == len > max

sc_loop(t) ==
  /\ L(t).pc = "sc_loop"
  /\ IF TrimNeeded(Len(stack), L(t).max)
       THEN Goto(t, [L(t) EXCEPT !.pc = "sc_pop"])
       ELSE SaveReturn(t)
  /\ UNCHANGED <<workspace, stack, root, disk, dropped, prefs, clock, panel,
                 mode, started, hist>>

\* a fault to tell the claims apart from: pop() in place of pop(0)
EvictIndex_Newest(s) == Len(s)

\* the index CHECKPOINT_STACK.pop(0) removes
EvictIndex(s) == 1
WithoutIndex(s, k) == SubSeq(s, 1, k - 1) \o SubSeq(s, k + 1, Len(s))

\* oldest_folder = CHECKPOINT_STACK.pop(0): IndexError on an empty list
sc_pop(t) ==
  /\ L(t).pc = "sc_pop"
  /\ IF stack = <<>>
       THEN Raise(t) /\ UNCHANGED stack
       ELSE /\ stack' = WithoutIndex(stack, EvictIndex(stack))
            /\ Goto(t, [L(t) EXCEPT !.pc = "sc_rm",
                          !.old = stack[EvictIndex(stack)]])
  /\ UNCHANGED <<workspace, root, disk, dropped, prefs, clock, panel, mode,
                 started, hist>>

\* try: shutil.rmtree(oldest_folder) except: pass
sc_rm(t) ==
  /\ L(t).pc = "sc_rm"
  /\ \E ok \in DelOk :
       disk' = IF ok /\ Exists(L(t).old.dir) THEN Removed(disk, L(t).old.dir)
               ELSE disk
  /\ Goto(t, [L(t) EXCEPT !.pc = "sc_loop", !.old = NoEntry])
  /\ UNCHANGED <<workspace, stack, root, dropped, prefs, clock, panel, mode,
                 started, hist>>

save_checkpoint(t) ==
  \/ sc_ids(t) \/ sc_root(t) \/ sc_mkdir(t) \/ sc_save(t) \/ sc_append(t)
  \/ sc_loop(t) \/ sc_pop(t) \/ sc_rm(t)

\* ------------------------------------------------ restore_last_checkpoint
\* a fault to tell the claims apart from: no "if not success and can_reload"
AfterRestore_NoFallback(r, success) ==
  End([r EXCEPT !.succ = success], IF success THEN "restored" ELSE "nothing")

\* Where run_undo_reload goes on when restore_last_checkpoint returns
\* success: "if not success and can_reload", then the Warning dialog when
\* confirm is set.
AfterRestore(r, success) ==
  IF success THEN End([r EXCEPT !.succ = TRUE], "restored")
  ELSE IF r.op = "restore" THEN End([r EXCEPT !.succ = FALSE], "nothing")
  ELSE IF r.cr
         THEN [r EXCEPT !.pc = IF r.conf THEN "ur_warn" ELSE "ro_ids",
                        !.succ = FALSE, !.ids = <<>>, !.i = 0]
         ELSE End([r EXCEPT !.succ = FALSE], "nothing")

\* if not CHECKPOINT_STACK: return False
rl_check(t) ==
  /\ L(t).pc = "rl_check"
  /\ IF stack = <<>>
       THEN Goto(t, AfterRestore(L(t), FALSE))
       ELSE Goto(t, [L(t) EXCEPT !.pc = "rl_pop"])
  /\ UNCHANGED <<workspace, stack, root, disk, dropped, prefs, clock, panel,
                 mode, started, hist>>

\* a fault to tell the claims apart from: pop(0) in place of pop()
PopIndex_Front(s) == 1

\* the index CHECKPOINT_STACK.pop() removes
PopIndex(s) == Len(s)

\* last_folder_path = CHECKPOINT_STACK.pop(): IndexError on an empty list
rl_pop(t) ==
  /\ L(t).pc = "rl_pop"
  /\ IF stack = <<>>
       THEN Raise(t) /\ UNCHANGED stack
       ELSE /\ stack' = WithoutIndex(stack, PopIndex(stack))
            /\ Goto(t, [L(t) EXCEPT !.pc = "rl_exists",
                          !.old = stack[PopIndex(stack)]])
  /\ UNCHANGED <<workspace, root, disk, dropped, prefs, clock, panel, mode,
                 started, hist>>

\* if not last_folder.exists(): return False
rl_exists(t) ==
  /\ L(t).pc = "rl_exists"
  /\ IF Exists(L(t).old.dir)
       THEN Goto(t, [L(t) EXCEPT !.pc = "rl_ids",
                       !.took = disk[L(t).old.dir]])
       ELSE Goto(t, AfterRestore(L(t), FALSE))
  /\ UNCHANGED <<workspace, stack, root, disk, dropped, prefs, clock, panel,
                 mode, started, hist>>

\* ids = WindowManager.getIDList()
rl_ids(t) ==
  /\ L(t).pc = "rl_ids"
  /\ IF IDList = <<>>
       THEN Goto(t, [L(t) EXCEPT !.pc = "rl_list"])
       ELSE Goto(t, [L(t) EXCEPT !.pc = "rl_close", !.ids = IDList, !.i = 1])
  /\ UNCHANGED <<workspace, stack, root, disk, dropped, prefs, clock, panel,
                 mode, started, hist>>

\* one turn of "for id in ids": imp.changes = False; imp.close()
rl_close(t) ==
  /\ L(t).pc = "rl_close"
  /\ workspace' = Closed(workspace, L(t).ids[L(t).i])
  /\ IF L(t).i = Len(L(t).ids)
       THEN Goto(t, [L(t) EXCEPT !.pc = "rl_list", !.ids = <<>>, !.i = 0])
       ELSE Goto(t, [L(t) EXCEPT !.i = @ + 1])
  /\ UNCHANGED <<stack, root, disk, dropped, prefs, clock, panel, mode, started,
                 hist>>

\* files = last_folder.listFiles(): None when the folder is gone
rl_list(t) ==
  /\ L(t).pc = "rl_list"
  /\ LET files == IF Exists(L(t).old.dir) THEN disk[L(t).old.dir] ELSE {}
     IN  Goto(t, [L(t) EXCEPT !.files = files,
                    !.pc = IF files = {} THEN "rl_rm" ELSE "rl_open"])
  /\ UNCHANGED <<workspace, stack, root, disk, dropped, prefs, clock, panel,
                 mode, started, hist>>

\* one turn of "for f in files", in the order listFiles happens to give:
\* IJ.openImage (None when the file is gone), setTitle, show
rl_open(t) ==
  /\ L(t).pc = "rl_open"
  /\ \E f \in L(t).files :
       /\ IF EndsWithTif(f.name) /\ Exists(L(t).old.dir)
               /\ f \in disk[L(t).old.dir]
            THEN workspace' = Shown(workspace, OrigName(f.name), f.px)
            ELSE UNCHANGED workspace
       /\ Goto(t, [L(t) EXCEPT !.files = @ \ {f},
                     !.pc = IF L(t).files = {f} THEN "rl_rm" ELSE "rl_open"])
  /\ UNCHANGED <<stack, root, disk, dropped, prefs, clock, panel, mode, started,
                 hist>>

\* try: shutil.rmtree(last_folder_path) except: pass; return True
rl_rm(t) ==
  /\ L(t).pc = "rl_rm"
  /\ \E ok \in DelOk :
       disk' = IF ok /\ Exists(L(t).old.dir) THEN Removed(disk, L(t).old.dir)
               ELSE disk
  /\ Goto(t, AfterRestore(L(t), TRUE))
  /\ UNCHANGED <<workspace, stack, root, dropped, prefs, clock, panel, mode,
                 started, hist>>

restore_last_checkpoint(t) ==
  \/ rl_check(t) \/ rl_pop(t) \/ rl_exists(t) \/ rl_ids(t) \/ rl_close(t)
  \/ rl_list(t) \/ rl_open(t) \/ rl_rm(t)

\* ------------------------------------------------------- reload_originals
\* ids = WindowManager.getIDList()
ro_ids(t) ==
  /\ L(t).pc = "ro_ids"
  /\ IF IDList = <<>>
       THEN Goto(t, [L(t) EXCEPT !.pc = "ro_paths"])
       ELSE Goto(t, [L(t) EXCEPT !.pc = "ro_close", !.ids = IDList, !.i = 1])
  /\ UNCHANGED <<workspace, stack, root, disk, dropped, prefs, clock, panel,
                 mode, started, hist>>

\* one turn of "for id in ids": imp.changes = False; imp.close()
ro_close(t) ==
  /\ L(t).pc = "ro_close"
  /\ workspace' = Closed(workspace, L(t).ids[L(t).i])
  /\ IF L(t).i = Len(L(t).ids)
       THEN Goto(t, [L(t) EXCEPT !.pc = "ro_paths", !.ids = <<>>, !.i = 0])
       ELSE Goto(t, [L(t) EXCEPT !.i = @ + 1])
  /\ UNCHANGED <<stack, root, disk, dropped, prefs, clock, panel, mode, started,
                 hist>>

\* "for path in LAST_DROPPED_FILES" takes the list as it is when the loop
\* begins (a later drop binds the name to a new list)
ro_paths(t) ==
  /\ L(t).pc = "ro_paths"
  /\ IF dropped = <<>>
       THEN Return(t, "reloaded")
       ELSE Goto(t, [L(t) EXCEPT !.pc = "ro_imp", !.paths = dropped, !.i = 1,
                       !.ids = <<>>])
  /\ UNCHANGED <<workspace, stack, root, disk, dropped, prefs, clock, panel,
                 mode, started, hist>>

\* one turn of the loop: the Bio-Formats import, its failure swallowed
ro_imp(t) ==
  /\ L(t).pc = "ro_imp"
  /\ \E ok \in ImpOk :
       workspace' = IF ok THEN Shown(workspace, PathTitle(L(t).paths[L(t).i]), 0)
                    ELSE workspace
  /\ IF L(t).i = Len(L(t).paths)
       THEN Return(t, "reloaded")
       ELSE Goto(t, [L(t) EXCEPT !.i = @ + 1])
  /\ UNCHANGED <<stack, root, disk, dropped, prefs, clock, panel, mode, started,
                 hist>>

reload_originals(t) == ro_ids(t) \/ ro_close(t) \/ ro_paths(t) \/ ro_imp(t)

\* -------------------------------------------------------- run_undo_reload
\* a fault to tell the claims apart from: "else:" in place of "elif can_reload:"
UndoGo_ElseReload(r) ==
  IF r.csb THEN [r EXCEPT !.pc = "rl_check"] ELSE [r EXCEPT !.pc = "ro_ids"]

\* a fault to tell the claims apart from: the two branches in the other order
UndoGo_ReloadFirst(r) ==
  IF r.cr THEN [r EXCEPT !.pc = "ro_ids"]
  ELSE IF r.csb THEN [r EXCEPT !.pc = "rl_check"]
  ELSE End(r, "nothing")

\* "if can_step_back: restore_last_checkpoint() ... elif can_reload:
\* reload_originals()"
UndoGo(r) ==
  IF r.csb THEN [r EXCEPT !.pc = "rl_check"]
  ELSE IF r.cr THEN [r EXCEPT !.pc = "ro_ids"]
  ELSE End(r, "nothing")

\* get_undo_confirm()
get_undo_confirm == prefs.confirm

\* confirm = get_undo_confirm(); can_step_back = len(CHECKPOINT_STACK) > 0
\* (one step, as in sc_append)
ur_csb(t) ==
  /\ L(t).pc = "ur_csb"
  /\ Goto(t, [L(t) EXCEPT !.pc = "ur_cr", !.conf = get_undo_confirm,
                !.csb = Len(stack) > 0])
  /\ UNCHANGED <<workspace, stack, root, disk, dropped, prefs, clock, panel,
                 mode, started, hist>>

\* can_reload = len(LAST_DROPPED_FILES) > 0, then "if confirm:" up to
\* gd.showDialog(), or the "no history" message and return
ur_cr(t) ==
  /\ L(t).pc = "ur_cr"
  /\ LET r == [L(t) EXCEPT !.cr = Len(dropped) > 0]
     IN  IF r.conf
           THEN IF r.csb \/ r.cr
                  THEN Goto(t, [r EXCEPT !.pc = "ur_dialog"])
                  ELSE Goto(t, End(r, "nohistory"))
           ELSE Goto(t, UndoGo(r))
  /\ UNCHANGED <<workspace, stack, root, disk, dropped, prefs, clock, panel,
                 mode, started, hist>>

\* the Undo dialog is answered: "if gd.wasCanceled(): return"
ur_dialog(t) ==
  /\ L(t).pc = "ur_dialog"
  /\ \E accepted \in BOOLEAN :
       IF accepted THEN Goto(t, UndoGo(L(t)))
       ELSE Return(t, "cancelled")
  /\ UNCHANGED <<workspace, stack, root, disk, dropped, prefs, clock, panel,
                 mode, started, hist>>

\* IJ.showMessageWithCancel("Warning", "Checkpoint missing. Reload originals?")
ur_warn(t) ==
  /\ L(t).pc = "ur_warn"
  /\ \E accepted \in BOOLEAN :
       IF accepted THEN Goto(t, [L(t) EXCEPT !.pc = "ro_ids"])
       ELSE Return(t, "cancelled")
  /\ UNCHANGED <<workspace, stack, root, disk, dropped, prefs, clock, panel,
                 mode, started, hist>>

run_undo_reload(t) ==
  \/ ur_csb(t) \/ ur_cr(t) \/ ur_dialog(t) \/ ur_warn(t)
  \/ restore_last_checkpoint(t) \/ reload_originals(t)

\* ------------------------------------- run_scale_bar_and_copy_sequence
\* (scale bar enabled, copy sequence disabled), after its save_checkpoint()
\* ids = WindowManager.getIDList(); if not ids: IJ.error(...); return
m_ids(t) ==
  /\ L(t).pc = "m_ids"
  /\ IF IDList = <<>>
       THEN Return(t, "noimages")
       ELSE Goto(t, [L(t) EXCEPT !.pc = "m_step", !.ids = IDList, !.i = 1])
  /\ UNCHANGED <<workspace, stack, root, disk, dropped, prefs, clock, panel,
                 mode, started, hist>>

\* IJ.run(imp, "Scale Bar...", params): the image's pixels change
Edited(ws, id) ==
  [k \in 1..Len(ws) |-> IF ws[k].id = id THEN [ws[k] EXCEPT !.px = @ + 1]
                        ELSE ws[k]]

\* one turn of "for id in ids": if check_escape(): return; then the scale bar
m_step(t) ==
  /\ L(t).pc = "m_step"
  /\ \E escape \in BOOLEAN :
       IF escape
         THEN /\ Return(t, "escaped")
              /\ UNCHANGED workspace
         ELSE /\ workspace' = Edited(workspace, L(t).ids[L(t).i])
              /\ IF L(t).i = Len(L(t).ids)
                   THEN Return(t, "ok")
                   ELSE Goto(t, [L(t) EXCEPT !.i = @ + 1])
  /\ UNCHANGED <<stack, root, disk, dropped, prefs, clock, panel, mode, started,
                 hist>>

run_scale_bar_and_copy_sequence(t) ==
  save_checkpoint(t) \/ m_ids(t) \/ m_step(t)

\* --------------------------------------------------- run_close_all_no_save
\* ids = WindowManager.getIDList(); if not ids: return
ca_ids(t) ==
  /\ L(t).pc = "ca_ids"
  /\ IF IDList = <<>>
       THEN Return(t, "noimages")
       ELSE Goto(t, [L(t) EXCEPT !.pc = "ca_dialog", !.ids = IDList, !.i = 1])
  /\ UNCHANGED <<workspace, stack, root, disk, dropped, prefs, clock, panel,
                 mode, started, hist>>

\* the "Close ALL images?" dialog is answered
ca_dialog(t) ==
  /\ L(t).pc = "ca_dialog"
  /\ \E accepted \in BOOLEAN :
       IF accepted THEN Goto(t, [L(t) EXCEPT !.pc = "ca_close"])
       ELSE Return(t, "cancelled")
  /\ UNCHANGED <<workspace, stack, root, disk, dropped, prefs, clock, panel,
                 mode, started, hist>>

\* one turn of "for i in ids": img.changes = False; img.close()
ca_close(t) ==
  /\ L(t).pc = "ca_close"
  /\ workspace' = Closed(workspace, L(t).ids[L(t).i])
  /\ IF L(t).i = Len(L(t).ids)
       THEN Return(t, "ok")
       ELSE Goto(t, [L(t) EXCEPT !.i = @ + 1])
  /\ UNCHANGED <<stack, root, disk, dropped, prefs, clock, panel, mode, started,
                 hist>>

run_close_all_no_save(t) == ca_ids(t) \/ ca_dialog(t) \/ ca_close(t)

\* ------------------------------------------------ cleanup_all_checkpoints
\* Where the event thread goes on when cleanup_all_checkpoints returns.
AfterCleanup(op) == IF op = "drop" THEN "dr_root" ELSE "wc_dispose"

\* a fault to tell the claims apart from: no shutil.rmtree of the root
cl_rm_Skip(t) ==
  /\ L(t).pc = "cl_rm"
  /\ Goto(t, [L(t) EXCEPT !.pc = "cl_clear"])
  /\ UNCHANGED <<workspace, stack, root, disk, dropped, prefs, clock, panel,
                 mode, started, hist>>

\* d = File(CHECKPOINT_ROOT); if d.exists(): try: shutil.rmtree(...) except: pass
cl_rm(t) ==
  /\ L(t).pc = "cl_rm"
  /\ \E ok \in DelOk :
       IF ok /\ root
         THEN root' = FALSE /\ disk' = NoDisk
         ELSE UNCHANGED <<root, disk>>
  /\ Goto(t, [L(t) EXCEPT !.pc = "cl_clear"])
  /\ UNCHANGED <<workspace, stack, dropped, prefs, clock, panel, mode, started,
                 hist>>

\* CHECKPOINT_STACK = []
cl_clear(t) ==
  /\ L(t).pc = "cl_clear"
  /\ stack' = <<>>
  /\ Goto(t, [L(t) EXCEPT !.pc = AfterCleanup(L(t).op)])
  /\ UNCHANGED <<workspace, root, disk, dropped, prefs, clock, panel, mode,
                 started, hist>>

cleanup_all_checkpoints(t) == cl_rm(t) \/ cl_clear(t)

\* -------------------------------------------- BioFormatsDropListener.drop
\* a fault to tell the claims apart from: no "LAST_DROPPED_FILES = []"
dr_set_Merge(t) ==
  /\ L(t).pc = "dr_set"
  /\ dropped' = dropped \o L(t).paths
  /\ Goto(t, [L(t) EXCEPT !.pc = "cl_rm"])
  /\ UNCHANGED <<workspace, stack, root, disk, prefs, clock, panel, mode,
                 started, hist>>

\* LAST_DROPPED_FILES = []; for f in files: LAST_DROPPED_FILES.append(...)
dr_set(t) ==
  /\ L(t).pc = "dr_set"
  /\ dropped' = L(t).paths
  /\ Goto(t, [L(t) EXCEPT !.pc = "cl_rm"])
  /\ UNCHANGED <<workspace, stack, root, disk, prefs, clock, panel, mode,
                 started, hist>>

\* ensure_checkpoint_root()
dr_root(t) ==
  /\ L(t).pc = "dr_root"
  /\ root' = TRUE
  /\ Goto(t, [L(t) EXCEPT !.pc = "dr_spawn"])
  /\ UNCHANGED <<workspace, stack, disk, dropped, prefs, clock, panel, mode,
                 started, hist>>

\* threading.Thread(target=worker).start(); dtde.dropComplete(True)
dr_spawn(t) ==
  /\ L(t).pc = "dr_spawn"
  /\ \E w \in Workers :
       /\ thr[w].pc = "reserved"
       /\ thr' = [thr EXCEPT
                    ![t] = End(L(t), "ok"),
                    ![w] = [IdleRec EXCEPT !.pc = "wk_imp", !.op = "worker",
                                           !.paths = L(t).paths, !.i = 1]]
  /\ UNCHANGED <<workspace, stack, root, disk, dropped, prefs, clock, panel,
                 mode, started, hist>>

\* a fault to tell the claims apart from: no try/except around the import
wk_imp_Abort(t) ==
  /\ L(t).pc = "wk_imp"
  /\ \E ok \in ImpOk :
       IF ok
         THEN /\ workspace' = Shown(workspace, PathTitle(L(t).paths[L(t).i]), 0)
              /\ IF L(t).i = Len(L(t).paths)
                   THEN Goto(t, [L(t) EXCEPT !.pc = "wk_sleep", !.paths = <<>>,
                                            !.i = 0])
                   ELSE Goto(t, [L(t) EXCEPT !.i = @ + 1])
         ELSE Raise(t) /\ UNCHANGED workspace
  /\ UNCHANGED <<stack, root, disk, dropped, prefs, clock, panel, mode, started,
                 hist>>

\* worker, one turn of "for f in files": the import, its failure swallowed
wk_imp(t) ==
  /\ L(t).pc = "wk_imp"
  /\ \E ok \in ImpOk :
       workspace' = IF ok THEN Shown(workspace, PathTitle(L(t).paths[L(t).i]), 0)
                    ELSE workspace
  /\ IF L(t).i = Len(L(t).paths)
       THEN Goto(t, [L(t) EXCEPT !.pc = "wk_sleep", !.paths = <<>>, !.i = 0])
       ELSE Goto(t, [L(t) EXCEPT !.i = @ + 1])
  /\ UNCHANGED <<stack, root, disk, dropped, prefs, clock, panel, mode, started,
                 hist>>

\* time.sleep(1.0): a time read after it is later than any read before it
wk_sleep(t) ==
  /\ L(t).pc = "wk_sleep"
  /\ clock' = IF Named(clock) THEN clock + 1 ELSE clock
  /\ Goto(t, [L(t) EXCEPT !.pc = "sc_ids"])
  /\ UNCHANGED <<workspace, stack, root, disk, dropped, prefs, panel, mode,
                 started, hist>>

drop(t) == dr_set(t) \/ cleanup_all_checkpoints(t) \/ dr_root(t) \/ dr_spawn(t)
worker(t) == wk_imp(t) \/ wk_sleep(t) \/ save_checkpoint(t)

\* ------------------------------------- ToolboxCloseListener.windowClosing
\* event.getSource().dispose(), after cleanup_all_checkpoints()
wc_dispose(t) ==
  /\ L(t).pc = "wc_dispose"
  /\ panel' = FALSE
  /\ Return(t, "ok")
  /\ UNCHANGED <<workspace, stack, root, disk, dropped, prefs, clock, mode,
                 started, hist>>

\* -------------------------------------------------------- starting, ending
\* A button or a drop acts while the panel is open.  In a "seq" run the next
\* operation begins only when the previous one has ended.
CanStart(t) ==
  /\ panel
  /\ Len(started) < (IF "deep" \in mode THEN MaxCalls ELSE MaxOps)
  /\ thr[t].pc = "idle"
  /\ "seq" \in mode => AllIdle

\* The threads are interchangeable: a new one takes the first free place.
FirstFree(t) == \A u \in Workers : u < t => thr[u].pc # "idle"

Begin(t, op, pc) ==
  /\ CanStart(t)
  /\ t \in Workers => FirstFree(t)
  /\ started' = Append(started, op)
  /\ Goto(t, [IdleRec EXCEPT !.pc = pc, !.op = op,
                !.ws0 = IF op \in {"undo", "restore"} THEN workspace
                        ELSE <<>>])
  /\ UNCHANGED <<workspace, stack, root, disk, dropped, prefs, clock, panel,
                 mode, hist>>

\* btn.addActionListener(lambda e: threading.Thread(target=action_func).start())
StartScaleBar == \E t \in Workers : Begin(t, "module", "sc_ids")
StartCloseAll == \E t \in Workers : Begin(t, "closeall", "sc_ids")
StartUndo == \E t \in Workers : Begin(t, "undo", "ur_csb")
\* save_checkpoint() called on its own, restore_last_checkpoint() likewise
StartSnapshot == \E t \in Workers : Begin(t, "snap", "sc_ids")
StartRestore == \E t \in Workers : Begin(t, "restore", "rl_check")

\* the drop events: the files dropped at once
DropLists ==
  IF "seq" \in mode THEN {<<"p1">>, <<"p1", "p2">>} ELSE {<<"p1">>}

StartDrop ==
  \E paths \in DropLists, w \in Workers :
    /\ CanStart(EDT)
    /\ thr[w].pc = "idle"
    /\ FirstFree(w)
    /\ started' = Append(started, "drop")
    /\ thr' = [thr EXCEPT
                 ![EDT] = [IdleRec EXCEPT !.pc = "dr_set", !.op = "drop",
                                          !.paths = paths],
                 ![w] = [IdleRec EXCEPT !.pc = "reserved"]]
    /\ UNCHANGED <<workspace, stack, root, disk, dropped, prefs, clock, panel,
                   mode, hist>>

StartClose == Begin(EDT, "close", "cl_rm")

\* the thread of an undo request ends
Finish ==
  \E p \in Procs :
    /\ thr[p].pc = "done"
    /\ Goto(p, IdleRec)
    /\ UNCHANGED <<workspace, stack, root, disk, dropped, prefs, clock, panel,
                   mode, started, hist>>

\* ---------------------------------------------------- show_undo_settings
\* the values the "Max Steps" slider is set to
SliderChoices == {1, 2, 3}

\* cfg_btn.addActionListener(lambda e:
\*   threading.Thread(target=safe_settings_run).start())
StartSettings == \E t \in Workers : Begin(t, "settings", "us_dialog")

\* gd.showDialog(); if gd.wasCanceled(): return;
\* Prefs.set(PREF_UNDO_MAX_STEPS, float(new_steps)); Prefs.set(PREF_UNDO_CONFIRM, ...)
us_dialog(t) ==
  /\ L(t).pc = "us_dialog"
  /\ \/ UNCHANGED prefs
     \/ \E n \in SliderChoices : prefs' = [prefs EXCEPT !.max = n]
  /\ Return(t, "ok")
  /\ UNCHANGED <<workspace, stack, root, disk, dropped, clock, panel, mode,
                 started, hist>>

show_undo_settings(t) == us_dialog(t)

\* ------------------------------------------------------------ environment
\* a checkpoint folder is deleted by something else than this program
OobDelete ==
  /\ "oob" \in mode
  /\ \E d \in DOMAIN disk : disk' = Removed(disk, d)
  /\ UNCHANGED <<workspace, stack, root, dropped, prefs, clock, panel, thr,
                 mode, started, hist>>

\* ------------------------------------------------------------------- Init
Image(id, title) == [id |-> id, title |-> title, px |-> 0]

\* the values of xiaoming.undo.max_steps the runs use
MaxStepsChoices == {1, 2}

InitWith(workspaces, modes, confirms) ==
  /\ workspace \in workspaces
  /\ mode \in modes
  /\ stack = <<>>
  /\ root = FALSE
  /\ disk = NoDisk
  /\ dropped = <<>>
  /\ prefs \in [max : MaxStepsChoices, confirm : confirms]
  /\ clock = 0
  /\ panel = TRUE
  /\ thr = [p \in Procs |-> IdleRec]
  /\ started = <<>>
  /\ hist = <<>>

\* Threads interleave freely: the panel as it runs.  The undo dialogs are on:
\* an undo with them off takes the same steps without the dialogs.
PlainWorkspaces == {<<Image(1, T_a)>>}
Init == InitWith(PlainWorkspaces, {{}}, {TRUE})

Step ==
  \E t \in Workers :
    \/ run_scale_bar_and_copy_sequence(t)
    \/ run_close_all_no_save(t)
    \/ run_undo_reload(t)
    \/ wk_imp(t) \/ wk_sleep(t)

EventStep == drop(EDT) \/ wc_dispose(EDT)

Next ==
  \/ StartScaleBar \/ StartCloseAll \/ StartUndo \/ StartDrop \/ StartClose
  \/ Step \/ EventStep \/ Finish

Spec == Init /\ [][Next]_vars

\* One operation of the panel at a time, with the faults the run's mode lets
\* the environment cause.
SeqWorkspaces ==
  {<<>>, <<Image(1, T_a)>>, <<Image(1, T_atif)>>,
   <<Image(1, T_slash), Image(2, T_b)>>}

RichWorkspaces ==
  {<<>>, <<Image(1, T_a)>>, <<Image(1, T_a), Image(2, T_b)>>,
   <<Image(1, T_atif)>>, <<Image(1, T_aTIF)>>, <<Image(1, T_mid)>>,
   <<Image(1, T_slash), Image(2, T_b)>>, <<Image(1, T_back)>>,
   <<Image(1, T_slash), Image(2, T_under)>>,
   <<Image(1, T_a), Image(2, T_atif)>>, <<Image(1, T_a), Image(2, T_a)>>}

SeqInit ==
  InitWith(SeqWorkspaces,
           {{"seq"}, {"seq", "oob"}, {"seq", "delfail"}, {"seq", "impfail"}},
           BOOLEAN)
SeqNext == Next \/ OobDelete
SeqSpec == SeqInit /\ [][SeqNext]_vars

\* One operation at a time, and every thread that can take a step takes it in
\* the end: a started Java thread is scheduled, and a dialog is answered.
UndoInit ==
  InitWith({<<>>, <<Image(1, T_a)>>}, {{"seq"}, {"seq", "oob"}}, BOOLEAN)
UndoSpec == UndoInit /\ [][SeqNext]_vars /\ WF_vars(Step)

\* Direct calls of save_checkpoint and restore_last_checkpoint, and the scale
\* bar module, one after the other (these never read xiaoming.undo.confirm):
\* short runs from every workspace, long runs from one.
CallsInit ==
  \/ InitWith(RichWorkspaces, {{"seq"}, {"seq", "delfail"}}, {FALSE})
  \/ InitWith({<<Image(1, T_slash), Image(2, T_b)>>}, {{"seq", "deep"}},
              {FALSE})
CallsNext ==
  \/ StartSnapshot \/ StartRestore \/ StartScaleBar
  \/ \E t \in Workers :
       run_scale_bar_and_copy_sequence(t) \/ restore_last_checkpoint(t)
  \/ Finish
CallsSpec == CallsInit /\ [][CallsNext]_vars

\* save_checkpoint called over and over, and nothing else.
SnapInit == InitWith(RichWorkspaces \ {<<>>}, {{"seq"}}, {FALSE})
SnapNext == StartSnapshot \/ \E t \in Workers : save_checkpoint(t)
SnapSpec == SnapInit /\ [][SnapNext]_vars

\* save_checkpoint called over and over, the setting changed in between.  The
\* stored xiaoming.undo.max_steps starts at any of StoredChoices: the file of
\* preferences is ImageJ's, and other than this script writes it.
StoredChoices == {0, 1, 3, 11}
PrefInit ==
  /\ workspace = <<Image(1, T_a)>>
  /\ mode = {"seq", "deep"}
  /\ stack = <<>>
  /\ root = FALSE
  /\ disk = NoDisk
  /\ dropped = <<>>
  /\ prefs \in [max : StoredChoices, confirm : {FALSE}]
  /\ clock = 0
  /\ panel = TRUE
  /\ thr = [p \in Procs |-> IdleRec]
  /\ started = <<>>
  /\ hist = <<>>
PrefNext ==
  \/ StartSnapshot \/ StartSettings
  \/ \E t \in Workers : save_checkpoint(t) \/ show_undo_settings(t)
PrefSpec == PrefInit /\ [][PrefNext]_vars

\* ------------------------------------------------------------ observations
SavePcs ==
  {"sc_ids", "sc_root", "sc_mkdir", "sc_save", "sc_append", "sc_loop",
   "sc_pop", "sc_rm"}
RestorePcs ==
  {"rl_check", "rl_pop", "rl_exists", "rl_ids", "rl_close", "rl_list",
   "rl_open", "rl_rm"}
CleanupPcs == {"cl_rm", "cl_clear"}
\* the places where a thread is about to call WindowManager.getIDList()
ReadsImages == {"sc_ids", "m_ids", "ca_ids", "rl_ids", "ro_ids"}

MaxDepth == get_undo_max_steps
Sns(s) == [k \in 1..Len(s) |-> s[k].sn]
TitlesOf(ws) == {ws[k].title : k \in 1..Len(ws)}
Docs(ws) == {[title |-> ws[k].title, px |-> ws[k].px] : k \in 1..Len(ws)}
\* the images restore_last_checkpoint makes of a folder's files
FileDocs(files) == {[title |-> OrigName(f.name), px |-> f.px] : f \in files}
DistinctTitles(ws) ==
  \A j, k \in 1..Len(ws) : j # k => ws[j].title # ws[k].title
\* the images as save_checkpoint leaves them
AsSaved(pre) == [k \in 1..Len(pre) |-> [pre[k] EXCEPT !.title = NewTitle(@)]]
\* a title with each separator replaced by "_" and one ".tif" (in any case)
\* taken off its end
Recovered(title) ==
  IF EndsWithTif(SafeTitle(title))
    THEN SubSeq(SafeTitle(title), 1, Len(title) - 1)
    ELSE SafeTitle(title)

NoSaveInProgress == \A p \in Procs : thr[p].pc \notin SavePcs
\* save_checkpoint has pushed and trimmed and is about to return
SaveDone(p) == thr[p].pc = "sc_loop" /\ ~TrimNeeded(Len(stack), thr[p].max)
\* the calls so far: n that each made a checkpoint, then k of
\* restore_last_checkpoint
Scenario(n, k) ==
  /\ Len(started) = n + k
  /\ Len(hist) = n
  /\ \A j \in 1..n : started[j] \in {"snap", "module"}
  /\ \A j \in (n + 1)..(n + k) : started[j] = "restore"

\* ----------------------------------------------------------------- claims
\* C1: after N calls of save_checkpoint and nothing else, on a workspace with
\* images and from an empty stack, CHECKPOINT_STACK has min(N, M) entries (the
\* newest), the folders of the max(0, N - M) oldest checkpoints are gone and
\* the folders of the min(N, M) newest exist.  (SnapSpec)
C1_SnapshotCount ==
  AllIdle =>
    LET N == Len(started)
        M == MaxDepth
    IN  /\ Len(stack) = Min2(N, M)
        /\ Len(hist) = N
        /\ \A k \in 1..Len(stack) : stack[k].sn = N - Len(stack) + k
        /\ \A k \in 1..Len(hist) : Exists(hist[k]) <=> k > N - M

\* C2: whenever no save_checkpoint is in progress, whatever the threads of
\* the buttons, the drops and the panel's closing have done so far,
\* len(CHECKPOINT_STACK) is at most the maximum the preference gives.  (Spec)
C2_StackBounded == NoSaveInProgress => Len(stack) <= MaxDepth

C2_Witness ==
  /\ NoSaveInProgress
  /\ MaxDepth = 2
  /\ Len(hist) = 3
  /\ Sns(stack) = <<2, 3>>

\* restore_last_checkpoint has returned, called right after the
\* save_checkpoint that made the folder it popped, the titles then distinct
RoundTrip(p) ==
  /\ thr[p].pc = "done"
  /\ thr[p].op = "restore"
  /\ thr[p].old # NoEntry
  /\ thr[p].old.sn = Len(hist)
  /\ thr[p].ws0 = AsSaved(thr[p].old.pre)
  /\ DistinctTitles(thr[p].old.pre)

C4_Lifo ==
  \A p \in Workers :
    thr[p].op = "restore" =>
      /\ thr[p].old # NoEntry =>
           \A k \in 1..Len(stack) : stack[k].sn < thr[p].old.sn
      /\ thr[p].pc = "done" /\ thr[p].succ =>
           Docs(workspace) = FileDocs(thr[p].took)
      /\ thr[p].pc = "done" /\ thr[p].old = NoEntry =>
           ~thr[p].succ /\ stack = <<>> /\ workspace = thr[p].ws0
      /\ thr[p].pc = "done" /\ MaxDepth = 2 /\ "delfail" \notin mode =>
           /\ Scenario(3, 1) =>
                /\ thr[p].succ /\ thr[p].old.sn = 3 /\ Sns(stack) = <<2>>
                /\ DOMAIN disk = {hist[2]}
           /\ Scenario(3, 2) =>
                /\ thr[p].succ /\ thr[p].old.sn = 2 /\ stack = <<>>
                /\ DOMAIN disk = {}
           /\ Scenario(3, 3) =>
                /\ ~thr[p].succ /\ thr[p].old = NoEntry /\ stack = <<>>
                /\ workspace = thr[p].ws0 /\ DOMAIN disk = {}

C4_Witness ==
  \E p \in Workers :
    /\ thr[p].pc = "done"
    /\ thr[p].op = "restore"
    /\ MaxDepth = 2
    /\ Scenario(3, 3)
    /\ workspace # <<>>

\* C5: over any sequence of snapshots and restores, CHECKPOINT_STACK is in
\* the order its checkpoints were made, oldest first, and the entry that
\* save_checkpoint evicts was made before every entry that stays.  (CallsSpec)
C5_OldestFirst ==
  /\ \A j, k \in 1..Len(stack) :
       j < k => stack[j].sn < stack[k].sn /\ stack[j].dir <= stack[k].dir
  /\ \A p \in Workers :
       thr[p].pc = "sc_rm" =>
         \A k \in 1..Len(stack) : thr[p].old.sn < stack[k].sn

C5_Witness ==
  \E p \in Workers :
    /\ thr[p].pc = "sc_rm"
    /\ Len(stack) = 2
    /\ \E j \in 1..Len(started) : started[j] = "restore"

\* C6: when save_checkpoint has finished on k open images, the new folder
\* holds k files, one for each image, and the title restore_last_checkpoint
\* makes of the file is the image's title at snapshot time with the
\* separators replaced.  (SnapSpec)
C6_OneFilePerImage ==
  \A p \in Workers :
    SaveDone(p) =>
      LET pre == thr[p].new.pre
          files == disk[thr[p].new.dir]
      IN  /\ Cardinality(files) = Len(pre)
          /\ \A k \in 1..Len(pre) :
               \E f \in files : /\ OrigName(f.name) = SafeTitle(pre[k].title)
                                /\ f.px = pre[k].px

\* C7: at no time are two threads inside save_checkpoint,
\* restore_last_checkpoint or cleanup_all_checkpoints.  (Spec)
C7_MutualExclusion ==
  Cardinality({p \in Procs :
                 thr[p].pc \in SavePcs \cup RestorePcs \cup CleanupPcs}) <= 1

\* C8: when the worker thread of a drop has imported, slept and finished its
\* save_checkpoint, CHECKPOINT_STACK holds one checkpoint, the worker's, made
\* of images among which are the imported ones, whatever the threads of the
\* module and undo buttons and of other drops did meanwhile.  (Spec)
C8_OneCheckpointAfterImport ==
  \A p \in Workers :
    ( /\ thr[p].op = "worker"
      /\ SaveDone(p)
      /\ \A j \in 1..Len(started) : started[j] \in {"module", "undo", "drop"} )
    => /\ Len(stack) = 1
       /\ stack[1] = thr[p].new
       /\ \A k \in 1..Len(dropped) :
            PathTitle(dropped[k]) \in TitlesOf(thr[p].new.pre)

\* C9: while an undo request is between closing the open images and having
\* opened the checkpoint's files, no other thread is at a place where it
\* reads the list of open images, unless these are the checkpoint's images in
\* full or the images the request began with.  (Spec)
C9_NoPartialRestore ==
  \A p, q \in Workers :
    ( /\ p # q
      /\ thr[p].op = "undo"
      /\ thr[p].pc \in {"rl_list", "rl_open"}
      /\ thr[q].pc \in ReadsImages )
    => \/ Docs(workspace) = FileDocs(thr[p].took)
       \/ workspace = thr[p].ws0

\* an undo request has ended that was not cancelled, popped a checkpoint
\* whose folder was gone, and had files in LAST_DROPPED_FILES
FolderGone(p) ==
  /\ thr[p].pc = "done"
  /\ thr[p].op = "undo"
  /\ thr[p].out # "cancelled"
  /\ thr[p].old # NoEntry
  /\ ~thr[p].succ
  /\ thr[p].cr

NothingLeft(p) ==
  /\ thr[p].op = "undo"
  /\ \/ thr[p].pc = "ur_csb" /\ stack = <<>> /\ dropped = <<>>
     \/ thr[p].pc = "ur_cr" /\ ~thr[p].csb /\ dropped = <<>>
     \/ thr[p].pc = "done" /\ ~thr[p].csb /\ ~thr[p].cr

\* C11: an undo request that finds CHECKPOINT_STACK and LAST_DROPPED_FILES
\* empty changes, in none of its steps, the open images, the stack, the
\* checkpoint folders or LAST_DROPPED_FILES, and ends right after reading the
\* two, with the dialogs on or off.  (SeqSpec)
C11_NothingToRestore ==
  [][\A p \in Workers :
       NothingLeft(p) /\ thr'[p] # thr[p] =>
         /\ UNCHANGED <<workspace, stack, root, disk, dropped>>
         /\ thr[p].pc = "ur_cr" =>
              /\ thr'[p].pc = "done"
              /\ thr'[p].out \in {"nohistory", "nothing"}
              /\ workspace' = thr'[p].ws0]_vars

C11_Witness ==
  \E p \in Workers :
    /\ NothingLeft(p)
    /\ thr[p].pc = "done"
    /\ ~thr[p].conf
    /\ workspace # <<>>
    /\ DOMAIN disk # {}

\* an undo request that ended without being cancelled at a dialog
UndoEnded(p) ==
  /\ thr[p].op = "undo"
  /\ thr[p].pc = "done"
  /\ thr[p].out \notin {"cancelled", "error"}

\* the request had nothing it could restore: no file to reload, and no
\* checkpoint or a checkpoint that restore_last_checkpoint could not load
NothingRestorable(p) == ~thr[p].cr /\ (~thr[p].csb \/ ~thr[p].succ)

\* C12: an undo request shows the "no history" notice exactly when it can
\* restore nothing: the stack is empty or its top folder is missing, and
\* LAST_DROPPED_FILES is empty; with the dialogs on or off.  (SeqSpec)
C12_NoticeIffNothing ==
  \A p \in Workers :
    UndoEnded(p) => (thr[p].out = "nohistory" <=> NothingRestorable(p))

\* restore_last_checkpoint took a checkpoint off the stack
SteppedBack(p) == thr[p].old # NoEntry

\* the request ended in reload_originals
Reloaded(p) == thr[p].out = "reloaded"

UndoDone(p) == thr[p].op = "undo" /\ thr[p].pc = "done"

UndoPaths(p) ==
  /\ thr[p].out # "error"
  /\ SteppedBack(p) => thr[p].csb
  /\ thr[p].out = "cancelled" => thr[p].conf /\ workspace = thr[p].ws0
  /\ thr[p].out # "cancelled" =>
       /\ thr[p].csb => SteppedBack(p)
       /\ Reloaded(p) <=> (thr[p].cr /\ (~thr[p].csb \/ ~thr[p].succ))
       /\ (~thr[p].csb /\ ~thr[p].cr) =>
            workspace = thr[p].ws0 /\ thr[p].out \in {"nothing", "nohistory"}

MutationBegins(p) ==
  /\ thr[p].pc \in {"m_step", "ca_close"}
  /\ thr[p].i = 1

\* the checkpoint e was made by the last save_checkpoint that made one, of
\* the images that are open now (save_checkpoint's own renaming apart)
TakenJustBefore(e) ==
  /\ e.sn = Len(hist)
  /\ workspace = AsSaved(e.pre)
  /\ Exists(e.dir)

\* the folder of e holds one file for each image save_checkpoint found
RecordsAll(e) ==
  /\ Cardinality(disk[e.dir]) = Len(e.pre)
  /\ \A k \in 1..Len(e.pre) :
       [name |-> SaveName(e.pre[k].title), px |-> e.pre[k].px] \in disk[e.dir]

\* C14: when a module (scale bar and copy, close all; the other four begin
\* with the same call) is about to make its first change, the top of the
\* stack is the checkpoint its save_checkpoint() just made, and that folder
\* records every image as it was before the operation.  (SeqSpec, with no
\* folder deleted by the environment)
C14_SnapshotBeforeMutate ==
  \A p \in Workers :
    (MutationBegins(p) /\ "oob" \notin mode) =>
      /\ stack # <<>>
      /\ TakenJustBefore(stack[Len(stack)])
      /\ RecordsAll(stack[Len(stack)])

\* C15: a save_checkpoint that finds no image open returns at once: the
\* stack, the checkpoint root and its folders stay as they were, whatever the
\* stack held.  (SeqSpec)
C15_EmptyWorkspaceNoCheckpoint ==
  [][\A p \in Workers :
       (thr[p].pc = "sc_ids" /\ workspace = <<>> /\ thr'[p] # thr[p]) =>
         /\ UNCHANGED <<workspace, stack, root, disk, hist>>
         /\ thr'[p].pc \notin SavePcs]_vars

C15_Witness ==
  \E p \in Workers :
    /\ thr[p].pc \in {"m_ids", "ca_ids"}
    /\ workspace = <<>>
    /\ Len(stack) = 2
    /\ \A k \in 1..Len(stack) : Exists(stack[k].dir)

\* cleanup_all_checkpoints has just returned to the drop handler or to
\* windowClosing
CleanupReturned(t) == thr[t].pc \in {"dr_root", "wc_dispose"}

\* a save_checkpoint about to return that is the first since the script's
\* start, or the one the worker of a drop makes after the drop's cleanup
FirstSaveAfterCleanup(p) ==
  /\ SaveDone(p)
  /\ thr[p].op = "worker" \/ Len(hist) = 1

SourceFilesOpen ==
  /\ Len(workspace) = Len(dropped)
  /\ \A k \in 1..Len(dropped) : workspace[k].title = PathTitle(dropped[k])

\* C17: the drop handler's first step sets LAST_DROPPED_FILES to the paths of
\* its own event, whatever the list held, and no other step of any operation
\* changes the list; an undo request that finds the stack empty and, no
\* import failing, ends in reload_originals leaves open the files of the
\* list, that is of the latest drop.  (SeqSpec)
C17_DroppedFiles ==
  /\ [][/\ (thr[EDT].pc = "dr_set" /\ thr'[EDT] # thr[EDT]) =>
             dropped' = thr[EDT].paths
        /\ dropped' # dropped => thr[EDT].pc = "dr_set"]_vars
  /\ [](\A p \in Workers :
          ( /\ UndoDone(p) /\ Reloaded(p)
            /\ ~thr[p].csb
            /\ "impfail" \notin mode )
          => /\ dropped = thr[p].paths
             /\ SourceFilesOpen)

C17_Witness ==
  \E p \in Workers :
    /\ UndoDone(p) /\ Reloaded(p)
    /\ ~thr[p].csb
    /\ started = <<"drop", "undo", "undo">>
    /\ dropped = <<"p1", "p2">>
    /\ SourceFilesOpen

\* a folder that is on disk though no entry of the stack names it
Leaked(d) == Exists(d) /\ \A k \in 1..Len(stack) : stack[k].dir # d

\* the entry whose folder is about to be deleted is off the stack already,
\* and the stack is empty when cleanup_all_checkpoints returns
EntryRemoved ==
  /\ \A p \in Workers :
       thr[p].pc \in {"sc_rm", "rl_rm"} =>
         \A k \in 1..Len(stack) : stack[k] # thr[p].old
  /\ \A t \in Procs : CleanupReturned(t) => stack = <<>>

\* C18: a shutil.rmtree that fails (eviction, restore, reset) leaves the
\* entry off the stack and the operation going, and the folder it leaves
\* behind breaks no later operation: no os.mkdir of a later save_checkpoint
\* can fail on it, and no undo request ends in an exception.  (SeqSpec)
C18_LeakHarmless ==
  /\ EntryRemoved
  /\ \A p \in Workers :
       /\ thr[p].pc = "sc_mkdir" => \A ts \in TimeRead : ~Leaked(ts)
       /\ UndoDone(p) => thr[p].out # "error"

\* C19: an undo request with the dialogs on that was not cancelled did what
\* its dialog announced: "Undo Last Step" restored a checkpoint, "Reload
\* Original" reloaded the source files, whatever other threads did to the
\* stack in the meantime.  (Spec)
C19_AnnouncedPathExecuted ==
  \A p \in Workers :
    (UndoDone(p) /\ thr[p].conf /\ thr[p].out # "cancelled") =>
      /\ thr[p].csb => (SteppedBack(p) /\ thr[p].succ /\ thr[p].out = "restored")
      /\ (~thr[p].csb /\ thr[p].cr) => Reloaded(p)

\* the folders made so far have names that grow in the order of their making
NamesIncrease ==
  \A j, k \in 1..Len(hist) : j < k => hist[j] < hist[k]

\* no two entries of the stack name the same folder
StackDirsDiffer ==
  \A j, k \in 1..Len(stack) : j # k => stack[j].dir # stack[k].dir

\* C20: the names of the checkpoint folders grow strictly in the order the
\* folders are made, a save_checkpoint about to name its folder has a name
\* that is free whatever millisecond it reads, and no two entries of the
\* stack share a folder.  (CallsSpec)
C20_DistinctFolders ==
  /\ NamesIncrease
  /\ StackDirsDiffer
  /\ \A p \in Workers :
       thr[p].pc = "sc_mkdir" => \A ts \in TimeRead : ~Exists(ts)

\* the stored setting as the claim has it read: below 1 as 1, above 10 as 10
Clamped(v) == IF v < 1 THEN 1 ELSE IF v > 10 THEN 10 ELSE v

\* the entries of the stack are the newest checkpoints made, oldest first,
\* and every older folder is gone
NewestKept ==
  /\ \A k \in 1..Len(stack) : stack[k].sn = Len(hist) - Len(stack) + k
  /\ \A k \in 1..Len(hist) : Exists(hist[k]) <=> k > Len(hist) - Len(stack)

\* C21: the limit a save_checkpoint trims to is the stored setting of that
\* moment, below 1 taken as 1 and above 10 as 10; when it returns the stack
\* is no longer than that, also right after the setting was lowered, and
\* holds the newest checkpoints.  (PrefSpec)
C21_TrimToStoredSetting ==
  \A p \in Workers :
    /\ thr[p].pc \in {"sc_loop", "sc_pop", "sc_rm"} =>
         thr[p].max = Clamped(prefs.max)
    /\ SaveDone(p) =>
         /\ Len(stack) <= Clamped(prefs.max)
         /\ Len(stack) >= 1
         /\ NewestKept

C21_Witness ==
  \E p \in Workers :
    /\ thr[p].pc = "sc_loop"
    /\ thr[p].max = 1
    /\ Len(hist) = 4
    /\ Len(stack) = 3
    /\ ~Exists(hist[1])

\* the images ws with the first n of ids processed by the module
PartlyEdited(ws, ids, n) ==
  [k \in 1..Len(ws) |->
     IF \E j \in 1..n : ids[j] = ws[k].id THEN [ws[k] EXCEPT !.px = @ + 1]
     ELSE ws[k]]

\* an undo request that came right after a module and took the latest
\* checkpoint off the stack, the module having left an image unprocessed
UndoAfterCancelledModule(p) ==
  /\ UndoDone(p) /\ thr[p].out = "restored"
  /\ Len(started) >= 2
  /\ started[Len(started) - 1] = "module"
  /\ started[Len(started)] = "undo"
  /\ thr[p].old.sn = Len(hist)
  /\ \E k \in 1..Len(thr[p].ws0) :
       \E j \in 1..Len(thr[p].old.pre) :
         /\ thr[p].ws0[k].id = thr[p].old.pre[j].id
         /\ thr[p].ws0[k].px = thr[p].old.pre[j].px

\* the images a checkpoint was made of, under their recovered titles
PreOperation(e) ==
  {[title |-> Recovered(e.pre[k].title), px |-> e.pre[k].px] :
     k \in 1..Len(e.pre)}

\* C22: wherever the scale bar loop is stopped by Escape, the images before
\* that place are processed and the others are as they were, and the top of
\* the stack is the checkpoint the module made at its start; the undo request
\* that follows brings back every image as it was before the module.
\* (SeqSpec, with no folder deleted by the environment)
C22_CancelKeepsCheckpoint ==
  \A p \in Workers :
    "oob" \notin mode =>
      /\ thr[p].pc = "m_step" =>
           /\ stack # <<>>
           /\ stack[Len(stack)].sn = Len(hist)
           /\ workspace = PartlyEdited(AsSaved(stack[Len(stack)].pre),
                                       thr[p].ids, thr[p].i - 1)
      /\ UndoAfterCancelledModule(p) =>
           /\ Len(workspace) = Len(thr[p].old.pre)
           /\ Docs(workspace) = PreOperation(thr[p].old)

\* thread p takes a turn of an import loop (pc is "wk_imp" or "ro_imp") and
\* goes on to the next path or, after the last one, to what follows the loop
NextPath(p, pc, after) ==
  (thr[p].pc = pc /\ thr'[p] # thr[p]) =>
    /\ \/ workspace' = workspace
       \/ workspace' = Shown(workspace, PathTitle(thr[p].paths[thr[p].i]), 0)
    /\ IF thr[p].i < Len(thr[p].paths)
         THEN /\ thr'[p].pc = pc
              /\ thr'[p].i = thr[p].i + 1
              /\ thr'[p].paths = thr[p].paths
         ELSE thr'[p].pc = after

\* C23: a turn of the worker's import loop, and of the loop of
\* reload_originals, goes on to the next path whether its import opened an
\* image or failed; after the last path the worker sleeps and calls
\* save_checkpoint, and reload_originals returns.  (SeqSpec)
C23_ImportFailureSkipped ==
  [][\A p \in Workers :
       /\ NextPath(p, "wk_imp", "wk_sleep")
       /\ NextPath(p, "ro_imp", "done")
       /\ (thr[p].pc = "wk_sleep" /\ thr'[p] # thr[p]) =>
            thr'[p].pc = "sc_ids"]_vars

\* the first of two dropped files failed, the second is open and checkpointed
C23_Witness ==
  \E p \in Workers :
    /\ thr[p].op = "worker"
    /\ SaveDone(p)
    /\ dropped = <<"p1", "p2">>
    /\ Len(workspace) = 1
    /\ thr[p].new.pre[1].title = PathTitle("p2")
    /\ Len(stack) = 1

\* no save_checkpoint is between its os.mkdir and its append, and no
\* cleanup_all_checkpoints between its rmtree and its clearing of the stack
NoFolderInTheMaking ==
  \A p \in Procs : thr[p].pc \notin {"sc_save", "sc_append"} \cup CleanupPcs

\* C24: whenever no save_checkpoint is between making its folder and
\* appending it (and no reset is half done), every entry of CHECKPOINT_STACK
\* names a folder that exists, whatever the threads of buttons, drops and the
\* panel's closing have done.  (Spec: nothing but the program deletes folders)
C24_StackDirsExist ==
  NoFolderInTheMaking => \A k \in 1..Len(stack) : Exists(stack[k].dir)

\* no thread is inside save_checkpoint, restore_last_checkpoint or
\* cleanup_all_checkpoints
NoCheckpointOp ==
  \A p \in Procs : thr[p].pc \notin SavePcs \cup RestorePcs \cup CleanupPcs

\* the entries of the stack that name folder d
EntriesOf(d) == {k \in 1..Len(stack) : stack[k].dir = d}

\* C25: whenever no checkpoint operation is in progress, each checkpoint
\* folder on disk is named by exactly one entry of CHECKPOINT_STACK, whatever
\* the threads of buttons, drops and the panel's closing have done.  (Spec: no
\* deletion fails)
C25_NoOrphanFolder ==
  NoCheckpointOp => \A d \in DOMAIN disk : Cardinality(EntriesOf(d)) = 1

\* the stack without its top entry
Beneath(s) == SubSeq(s, 1, Len(s) - 1)

\* C26: no step of an undo request adds to the stack or makes a folder; the
\* one step that changes the stack is the pop of restore_last_checkpoint,
\* taken at most once in a request, which removes the top entry and leaves
\* the entries beneath as they were.  A request that found the top folder
\* missing and reloaded the source files has consumed that entry all the
\* same, and a reload on an empty stack leaves the stack empty.  (SeqSpec)
C26_UndoRemovesAtMostTop ==
  /\ [][\A p \in Workers :
          (thr[p].op = "undo" /\ thr'[p] # thr[p]) =>
            /\ hist' = hist
            /\ \A d \in DOMAIN disk' : d \in DOMAIN disk
            /\ \/ stack' = stack
               \/ /\ thr[p].pc = "rl_pop"
                  /\ thr[p].old = NoEntry
                  /\ stack # <<>>
                  /\ stack' = Beneath(stack)
                  /\ thr'[p].old = stack[Len(stack)]]_vars
  /\ [](\A p \in Workers :
          (UndoDone(p) /\ Reloaded(p)) =>
            /\ \A k \in 1..Len(stack) : stack[k] # thr[p].old
            /\ ~thr[p].csb => stack = <<>>)

C26_Witness ==
  \E p \in Workers :
    /\ UndoDone(p) /\ Reloaded(p)
    /\ thr[p].csb /\ ~thr[p].succ
    /\ thr[p].old.sn = 2
    /\ Len(stack) = 1
    /\ stack[1].sn = 1
    /\ Exists(stack[1].dir)

\* thread p runs a module whose save_checkpoint has returned
SavedByModule(p) ==
  /\ thr[p].op \in {"module", "closeall"}
  /\ thr[p].pc \in {"m_ids", "m_step", "ca_ids", "ca_dialog", "ca_close"}

\* C27: a module button pressed with an image open pushes one checkpoint:
\* its save_checkpoint cannot fail where it makes the folder, and when it has
\* returned - before the module does, refuses or is cancelled in its dialog -
\* the newest folder made is on top of the stack and the stack is within its
\* limit, the oldest entries evicted.  (SeqSpec, with no folder deleted by the
\* environment and no deletion failing)
C27_ModulePushesOne ==
  \A p \in Workers :
    ("oob" \notin mode /\ "delfail" \notin mode) =>
      /\ (thr[p].op \in {"module", "closeall"} /\ thr[p].pc = "sc_mkdir") =>
           root /\ \A ts \in TimeRead : ~Exists(ts)
      /\ (SavedByModule(p) /\ (workspace # <<>> \/ thr[p].pc = "ca_close")) =>
           /\ stack # <<>>
           /\ stack[Len(stack)].sn = Len(hist)
           /\ Exists(stack[Len(stack)].dir)
           /\ Len(stack) <= MaxDepth
           /\ \A k \in 1..(Len(stack) - 1) : stack[k].sn < stack[k + 1].sn
====
